---- MODULE Spec2Model ----
(***************************************************************************)
(* Model of the finEQUITY recurring-subscriptions page: the LinkPage       *)
(* cache-then-fetch controller (src/src/pages/LinkPage.jsx), the Plaid     *)
(* link button that exchanges the public token                             *)
(* (src/src/components/PlaidButton.jsx) and the stream normalizer          *)
(* toRecurringItems (src/unnamed/part_004).                                *)
(***************************************************************************)
EXTENDS Integers, Sequences, FiniteSets, Bags, TLC

(***************************************************************************)
(* Bounds of the model.                                                    *)
(***************************************************************************)
MaxTicks == 1
MaxInFlight == 2
MaxSend == 2
MaxActivations == 2
MaxStreams == 3

(***************************************************************************)
(* JavaScript values.                                                      *)
(***************************************************************************)
NULL == "null"
UNDEFINED == "undefined"

Users == {"u1", "u2"}
Tokens == {"tok1"}
Creds == {"pt1"}

\* What searchParams.get("user_id") can return: an identity or null.
UserIds == Users \cup {NULL}

Truthy(v) == v \notin {NULL, UNDEFINED, ""}

CACHE_TTL_MS == 1000 * 60 * 60 * 12

MsgNoItems == "No recurring transactions found."
MsgNoData == "No data returned."
MsgError == "Error retrieving data. Please try again."

(***************************************************************************)
(* Raw aggregator payloads (response_object.data) and their streams.       *)
(* A stream list element is a record stream, the JSON value null, or a     *)
(* scalar (a number or a string).                                          *)
(***************************************************************************)
NullElem == [kind |-> "null"]
ScalarElem == [kind |-> "scalar"]

\* A stream record.  An optional field is <<>> when absent and <<v>> when
\* present: is_active is <<>>, <<TRUE>> or <<FALSE>>; an amount object is
\* <<>> (no object), <<<<>>>> (an object without amount) or <<<<n>>>> (an
\* object whose amount is n, in cents).
Stream(acct, flag, avg, last, merchant, desc, next) ==
    [kind |-> "record", account_id |-> acct, is_active |-> flag,
     average_amount |-> avg, last_amount |-> last,
     merchant_name |-> merchant, description |-> desc,
     frequency |-> "MONTHLY", last_date |-> "2025-08-14",
     detailed |-> UNDEFINED, predicted_next_date |-> next]

NoAmount == <<>>
AmountObject(n) == <<<<n>>>>
EmptyAmountObject == << <<>> >>

Spotify == Stream("a1", <<TRUE>>, AmountObject(999), NoAmount,
                  "Spotify", "SPOTIFY USA", 20250914)
Netflix == Stream(UNDEFINED, <<TRUE>>, NoAmount, AmountObject(500),
                  UNDEFINED, "NETFLIX.COM", 20250901)
Salary == Stream("a2", <<TRUE>>, AmountObject(-250000), NoAmount,
                 "Acme", "ACME PAYROLL", 0)
Gym == Stream("a1", <<FALSE>>, AmountObject(3000), NoAmount, "Gym", "GYM", 20250905)
Hulu == Stream("a1", <<TRUE>>, AmountObject(0), AmountObject(700),
               "Hulu", "HULU", 20250914)
Rent == Stream("a3", <<TRUE>>, EmptyAmountObject, NoAmount, "", "RENT", 0)
Unflagged == Stream("a3", <<>>, AmountObject(100), NoAmount, "Old", "OLD", 20250902)

MissingList == [kind |-> "missing"]
ArrayOf(elems) == [kind |-> "array", elems |-> elems]
\* A list field holding a truthy value that is not an array.
NonArray == [kind |-> "nonarray"]

AbsentPayload == [kind |-> "absent"]
\* A payload that is not an object (a string or a number).
ScalarPayload == [kind |-> "scalar"]
Payload(inflow, outflow) ==
    [kind |-> "object", inflow_streams |-> inflow, outflow_streams |-> outflow]

Payloads ==
    { AbsentPayload,
      Payload(MissingList, ArrayOf(<<Spotify>>)),
      Payload(ArrayOf(<<Salary>>), ArrayOf(<<Spotify, Gym, Netflix>>)),
      Payload(ArrayOf(<<NullElem>>), ArrayOf(<<Spotify>>)) }

(***************************************************************************)
(* toRecurringItems.  The result is either the sorted item list or a       *)
(* thrown TypeError.                                                       *)
(***************************************************************************)
\* (o && o.amount): undefined when the object or its amount is absent.
AmountOf(o) == IF o = <<>> THEN <<>> ELSE o[1]

\* A variant that falls back with || instead of ??.
AmountOrFallback(s) ==
    LET avg == AmountOf(s.average_amount)
        last == AmountOf(s.last_amount)
    IN IF avg # <<>> /\ avg[1] # 0 THEN avg[1]
       ELSE IF last # <<>> /\ last[1] # 0 THEN last[1]
       ELSE 0

\* Number((s.average_amount && s.average_amount.amount) ??
\*        (s.last_amount && s.last_amount.amount) ?? 0)
Amount(s) ==
    LET avg == AmountOf(s.average_amount)
        last == AmountOf(s.last_amount)
    IN IF avg # <<>> THEN avg[1]
       ELSE IF last # <<>> THEN last[1]
       ELSE 0

pickFields(s) ==
    [account_id |-> s.account_id,
     amount |-> Amount(s),
     description |-> IF Truthy(s.merchant_name) THEN s.merchant_name
                     ELSE IF Truthy(s.description) THEN s.description ELSE "",
     frequency |-> IF Truthy(s.frequency) THEN s.frequency ELSE NULL,
     last_date |-> IF Truthy(s.last_date) THEN s.last_date ELSE NULL,
     detailed |-> IF Truthy(s.detailed) THEN s.detailed ELSE NULL,
     predicted_next_date |-> s.predicted_next_date]

\* (arr || []): a missing list is the empty array.
ListElems(list) == IF list.kind = "array" THEN list.elems ELSE <<>>

\* Reading is_active of a null element throws.
HasNullElem(elems) == \E i \in 1..Len(elems) : elems[i].kind = "null"

\* (arr || []).filter((s) => s.is_active): a truthy value that is not an
\* array has no filter method, and reading is_active of null throws.
Throws(list) == list.kind = "nonarray" \/ HasNullElem(ListElems(list))

\* s.is_active is truthy; a scalar has no such property.
IsActiveStream(s) == s.kind = "record" /\ s.is_active = <<TRUE>>

active(list) == SelectSeq(ListElems(list), IsActiveStream)

RECURSIVE MapPick(_)
MapPick(ss) == IF ss = <<>> THEN <<>> ELSE <<pickFields(Head(ss))>> \o MapPick(Tail(ss))

\* A variant that puts the items without a date first.
CompareUndatedFirst(a, b) ==
    LET ax == a.predicted_next_date
        bx == b.predicted_next_date
    IN IF ax = 0 /\ bx = 0 THEN 0
       ELSE IF ax = 0 THEN -1
       ELSE IF bx = 0 THEN 1
       ELSE IF ax < bx THEN -1 ELSE IF ax > bx THEN 1 ELSE 0

\* The comparator of combined.sort: dates are ISO strings, modelled as the
\* numbers yyyymmdd (same order); 0 is a missing date, which goes last.
Compare(a, b) ==
    LET ax == a.predicted_next_date
        bx == b.predicted_next_date
    IN IF ax = 0 /\ bx = 0 THEN 0
       ELSE IF ax = 0 THEN 1
       ELSE IF bx = 0 THEN -1
       ELSE IF ax < bx THEN -1 ELSE IF ax > bx THEN 1 ELSE 0

\* Array.prototype.sort is stable: insert each item after the last item that
\* does not compare greater than it.
RECURSIVE Insert(_, _)
Insert(sorted, x) ==
    IF sorted = <<>> THEN <<x>>
    ELSE IF Compare(Head(sorted), x) <= 0 THEN <<Head(sorted)>> \o Insert(Tail(sorted), x)
    ELSE <<x>> \o sorted

RECURSIVE StableSort(_)
StableSort(xs) ==
    IF xs = <<>> THEN <<>>
    ELSE Insert(StableSort(SubSeq(xs, 1, Len(xs) - 1)), xs[Len(xs)])

\* The merge variant: active inflow streams, then active outflow streams.
toRecurringItems(resp) ==
    LET inflow == IF resp.kind = "object" THEN resp.inflow_streams ELSE MissingList
        outflow == IF resp.kind = "object" THEN resp.outflow_streams ELSE MissingList
    IN IF Throws(inflow) \/ Throws(outflow)
       THEN [threw |-> TRUE, items |-> <<>>]
       ELSE [threw |-> FALSE,
             items |-> StableSort(MapPick(active(inflow)) \o MapPick(active(outflow)))]

\* The outflow-only variant: (resp && Array.isArray(resp.outflow_streams))
\* ? resp.outflow_streams : [].
toRecurringItemsOutflowOnly(resp) ==
    LET outflows == IF resp.kind = "object" /\ resp.outflow_streams.kind = "array"
                    THEN resp.outflow_streams.elems ELSE <<>>
    IN IF HasNullElem(outflows)
       THEN [threw |-> TRUE, items |-> <<>>]
       ELSE [threw |-> FALSE,
             items |-> StableSort(MapPick(SelectSeq(outflows, IsActiveStream)))]

ItemLists == { toRecurringItems(p).items : p \in Payloads }


(***************************************************************************)
(* State.                                                                  *)
(***************************************************************************)
VARIABLES
    mounted,      \* the page is loaded and LinkPage is mounted
    userId,       \* searchParams.get("user_id")
    linkToken,    \* useState(null)
    message,      \* useState("")
    loading,      \* useState(true)
    subs,         \* useState([])
    storage,      \* localStorage: key -> stored string
    storageDown,  \* localStorage throws on every access
    now,          \* Date.now()
    ticks,        \* number of clock advances so far
    activations,  \* number of activations so far
    retrieves,    \* in-flight retrieve calls, by the userId of the closure
    exchanges,    \* in-flight exchange calls (a bag of requests)
    consumed,     \* public tokens the remote side has already exchanged
    ev,           \* the handler that ran last and what it was given
    io,           \* the storage and network operations that handler performed
    calls,        \* retrieve calls issued since the last activation
    sent,         \* exchange requests issued so far, per public token
    okList,       \* per identity, the list its last successful exchange delivered
    origin        \* the identities the shown items and link token were obtained for

page == <<mounted, userId, linkToken, message, loading, subs>>
env == <<storage, storageDown, now, ticks, consumed>>
net == <<retrieves, exchanges>>
hist == <<ev, io, calls, sent, okList, activations, origin>>
vars == <<page, env, net, hist>>

(***************************************************************************)
(* Local cache.                                                            *)
(***************************************************************************)
\* A variant with one key for every identity.
cacheKeyShared(uid) == "recurring_cache_v1:"

cacheKey(uid) == "recurring_cache_v1:" \o uid

IdentityKey == "user_id"

Keys == { cacheKey(u) : u \in UserIds } \cup {IdentityKey}

NoEntry == [kind |-> "none"]
Text(t) == [kind |-> "text", text |-> t]

\* The fields of an item, and how JSON carries one: JSON.stringify leaves out
\* a property whose value is undefined, and reading a property the parsed
\* object does not have gives undefined.
ItemKeys == {"account_id", "amount", "description", "frequency", "last_date",
             "detailed", "predicted_next_date"}

StringifyItem(it) ==
    IF it.account_id = UNDEFINED
    THEN [k \in ItemKeys \ {"account_id"} |-> it[k]]
    ELSE it

\* A variant that hands out the parsed object as stored.
ParseItemAsStored(t) == t

ParseItem(t) ==
    IF "account_id" \in DOMAIN t THEN t
    ELSE [k \in ItemKeys |-> IF k = "account_id" THEN UNDEFINED ELSE t[k]]

RECURSIVE StringifyItems(_)
StringifyItems(items) ==
    IF items = <<>> THEN <<>>
    ELSE <<StringifyItem(Head(items))>> \o StringifyItems(Tail(items))

RECURSIVE ParseItems(_)
ParseItems(ts) ==
    IF ts = <<>> THEN <<>>
    ELSE <<ParseItem(Head(ts))>> \o ParseItems(Tail(ts))

\* JSON.stringify({ ts, items }): the stored string of a cache entry.
JSONStringify(obj) ==
    [kind |-> "json", ts |-> obj.ts, items |-> StringifyItems(obj.items)]

\* Stored strings this page never writes: text that is not JSON, and JSON
\* objects of another shape (ts may be missing or a string, items may be
\* missing or something that is not an array).
Garbage == [kind |-> "garbage"]
OtherJSON(tsType, ts, itemsType, items) ==
    [kind |-> "other", tsType |-> tsType, ts |-> ts,
     itemsType |-> itemsType, items |-> items]

\* JSON.parse of a stored string: the object, or a thrown SyntaxError.
JSONParse(raw) ==
    IF raw.kind = "json"
    THEN [threw |-> FALSE, tsType |-> "number", ts |-> raw.ts,
          itemsType |-> "array", items |-> ParseItems(raw.items)]
    ELSE IF raw.kind = "other"
    THEN [threw |-> FALSE, tsType |-> raw.tsType, ts |-> raw.ts,
          itemsType |-> raw.itemsType, items |-> ParseItems(raw.items)]
    ELSE [threw |-> TRUE, tsType |-> "missing", ts |-> 0,
          itemsType |-> "missing", items |-> <<>>]

Miss == [isNull |-> TRUE, items |-> <<>>]
Hit(items) == [isNull |-> FALSE, items |-> items]

\* !obj.ts: a missing ts, the number 0 and the empty string are falsy.
TsFalsy(obj) ==
    \/ obj.tsType = "missing"
    \/ obj.tsType = "number" /\ obj.ts = 0

\* A variant that expires an entry as soon as its age reaches the lifetime.
ExpiredAtLifetime(obj, t) == obj.tsType = "number" /\ t - obj.ts >= CACHE_TTL_MS

\* Date.now() - obj.ts > CACHE_TTL_MS: with a ts that is not a number the
\* difference is NaN and the comparison is false.
Expired(obj, t) == obj.tsType = "number" /\ t - obj.ts > CACHE_TTL_MS

\* readCache(uid) on the storage store at time t.
readCacheAt(store, down, t, uid) ==
    IF down THEN Miss
    ELSE LET raw == store[cacheKey(uid)]
             obj == JSONParse(raw)
         IN IF raw.kind = "none" THEN Miss
            ELSE IF obj.threw THEN Miss
            ELSE IF obj.itemsType # "array" THEN Miss
            ELSE IF TsFalsy(obj) THEN Miss
            ELSE IF Expired(obj, t) THEN Miss
            ELSE Hit(obj.items)

readCache(uid) == readCacheAt(storage, storageDown, now, uid)

\* The storage after writeCache(uid, items); a storage fault is swallowed.
writeCache(store, uid, items) ==
    IF storageDown THEN store
    ELSE [store EXCEPT ![cacheKey(uid)] = JSONStringify([ts |-> now, items |-> items])]

(***************************************************************************)
(* What LinkPage renders.                                                  *)
(***************************************************************************)
\* A variant that tests the link token before the items.
ViewTokenFirst ==
    IF loading THEN "Loading"
    ELSE IF Truthy(linkToken) THEN "NeedsLink"
    ELSE IF Len(subs) > 0 THEN "Ready"
    ELSE "Message"

View ==
    IF loading THEN "Loading"
    ELSE IF Len(subs) > 0 THEN "Ready"
    ELSE IF Truthy(linkToken) THEN "NeedsLink"
    ELSE "Message"

\* The text of the fallback box: {message || "Ready."}
FallbackText == IF message # "" THEN message ELSE "Ready."

\* PlaidButton is rendered only in the NeedsLink branch.
PlaidButtonMounted == mounted /\ View = "NeedsLink"

NoResp == [kind |-> "none"]

\* For which identity the items in subs and the token in linkToken were
\* obtained; null while there are no items, or no token.
NoOrigin == [subs |-> NULL, token |-> NULL]
Origin(items, itemsFor, token, tokenFor) ==
    [subs |-> IF items = <<>> THEN NULL ELSE itemsFor,
     token |-> IF Truthy(token) THEN tokenFor ELSE NULL]
Event(kind, uid, resp) == [kind |-> kind, uid |-> uid, resp |-> resp]

Init ==
    /\ mounted = FALSE
    /\ userId = NULL
    /\ linkToken = NULL
    /\ message = ""
    /\ loading = TRUE
    /\ subs = <<>>
    /\ storage = [k \in Keys |-> NoEntry]
    /\ storageDown = FALSE
    /\ now = 1
    /\ ticks = 0
    /\ activations = 0
    /\ retrieves = [u \in Users |-> 0]
    /\ exchanges = EmptyBag
    /\ consumed = {}
    /\ ev = Event("init", NULL, NoResp)
    /\ io = {}
    /\ calls = 0
    /\ sent = [c \in Creds |-> 0]
    /\ okList = [u \in UserIds |-> <<>>]
    /\ origin = NoOrigin

InFlight == retrieves["u1"] + retrieves["u2"] + BagCardinality(exchanges)


(***************************************************************************)
(* Responses of the remote side.                                           *)
(***************************************************************************)
HttpError == [kind |-> "http_error"]
NetworkError == [kind |-> "network_error"]
Tagged(tag, data) == [kind |-> "ok", tag |-> tag, data |-> data]
TokenData(token) == [kind |-> "token", link_token |-> token]

RetrieveResponses ==
    {HttpError, NetworkError, Tagged("other", AbsentPayload)}
      \cup { Tagged("recurring_data", p) : p \in Payloads }
      \cup { Tagged("link_token", TokenData(t)) : t \in Tokens \cup {UNDEFINED} }

ExchangeResponses ==
    {HttpError, NetworkError, Tagged("other", AbsentPayload)}
      \cup { Tagged("recurring_data", p) : p \in Payloads }

(***************************************************************************)
(* fetchFromApi after the awaited response: the new values of the state    *)
(* the branches assign; setLoading(false) runs in the finally block.       *)
(***************************************************************************)
Keep == [subs |-> subs, linkToken |-> linkToken, message |-> message,
         storage |-> storage, wrote |-> FALSE]

\* A variant whose catch block also drops the link token.
OnCatchDropsToken == [Keep EXCEPT !.message = MsgError, !.linkToken = NULL]

OnCatch == [Keep EXCEPT !.message = MsgError]

OnRecurringData(uid, data) ==
    LET r == toRecurringItems(data)
    IN IF r.threw THEN OnCatch
       ELSE [subs |-> r.items,
             storage |-> writeCache(storage, uid, r.items),
             linkToken |-> NULL,
             message |-> IF Len(r.items) > 0 THEN "" ELSE MsgNoItems,
             wrote |-> TRUE]

\* A variant that clears the items when a link token arrives.
OnLinkTokenClearsItems(data) ==
    [Keep EXCEPT !.linkToken = data.link_token, !.message = "", !.subs = <<>>]

OnLinkToken(data) ==
    [Keep EXCEPT !.linkToken = data.link_token, !.message = ""]

OnOtherTag == [Keep EXCEPT !.message = MsgNoData]

FetchOutcome(uid, resp) ==
    IF resp.kind # "ok" THEN OnCatch
    ELSE IF resp.tag = "recurring_data" THEN OnRecurringData(uid, resp.data)
    ELSE IF resp.tag = "link_token" THEN OnLinkToken(resp.data)
    ELSE OnOtherTag

\* A retrieve call issued by the closure of uid resolves.
RetrieveResolve(uid, resp) ==
    /\ mounted
    /\ retrieves[uid] > 0
    /\ LET o == FetchOutcome(uid, resp)
       IN /\ subs' = o.subs
          /\ linkToken' = o.linkToken
          /\ message' = o.message
          /\ storage' = o.storage
          /\ io' = IF o.wrote THEN {"cache_write"} ELSE {}
          /\ origin' = Origin(o.subs, IF o.wrote THEN uid ELSE origin.subs,
                              o.linkToken,
                              IF resp.kind = "ok" /\ resp.tag = "link_token"
                              THEN uid ELSE origin.token)
    /\ loading' = FALSE
    /\ retrieves' = [retrieves EXCEPT ![uid] = @ - 1]
    /\ ev' = Event("retrieve", uid, resp)
    /\ UNCHANGED <<mounted, userId, storageDown, now, ticks, consumed,
                   exchanges, calls, sent, okList, activations>>

(***************************************************************************)
(* The effect of LinkPage, run when userId becomes uid.                    *)
(***************************************************************************)
\* A variant that never serves the cache.
CacheServesNever(cached) == FALSE

\* cached && cached.length
CacheServes(cached) == ~cached.isNull /\ Len(cached.items) > 0

\* A variant that calls fetchFromApi twice on a miss.
EffectFetchesTwice(cached) == IF CacheServes(cached) THEN 0 ELSE 2

\* The retrieve calls the effect issues for a cache result.
EffectFetches(cached) == IF CacheServes(cached) THEN 0 ELSE 1

\* A variant without the missing-identity test.
MissingIdentityIgnored(uid) == FALSE

\* if (!userId)
MissingIdentity(uid) == ~Truthy(uid)

UseEffect(uid) ==
    IF MissingIdentity(uid)
    THEN /\ loading' = FALSE
         /\ io' = {"log_error"}
         /\ calls' = 0
         /\ UNCHANGED <<linkToken, message, subs, storage, retrieves, origin>>
    ELSE IF storageDown
    THEN \* localStorage.setItem("user_id", userId) throws out of the effect
         /\ io' = {"uncaught"}
         /\ calls' = 0
         /\ UNCHANGED <<linkToken, message, loading, subs, storage, retrieves,
                        origin>>
    ELSE LET cached == readCache(uid)
             \* fetchFromApi returns at once when userId is missing
             n == IF Truthy(uid) THEN EffectFetches(cached) ELSE 0
         IN /\ storage' = [storage EXCEPT ![IdentityKey] = Text(uid)]
            /\ calls' = n
            /\ retrieves' = [retrieves EXCEPT ![uid] = @ + n]
            /\ IF CacheServes(cached)
               THEN /\ subs' = cached.items
                    /\ linkToken' = NULL
                    /\ message' = ""
                    /\ loading' = FALSE
                    /\ io' = {"id_write", "cache_read"}
                    /\ origin' = Origin(cached.items, uid, NULL, NULL)
               ELSE /\ loading' = TRUE
                    /\ message' = ""
                    /\ io' = {"id_write", "cache_read"} \cup
                             (IF n > 0 THEN {"fetch_retrieve"} ELSE {})
                    /\ UNCHANGED <<subs, linkToken, origin>>

\* The page is opened with ?user_id=uid (or without one): first render with
\* the initial state, then the effect.
LoadFrom(uid, src) ==
    /\ ~mounted
    /\ activations < MaxActivations
    /\ InFlight < MaxInFlight
    /\ activations' = activations + 1
    /\ mounted' = TRUE
    /\ userId' = uid
    /\ UseEffect(uid)
    /\ ev' = Event("activate", uid, src)
    /\ UNCHANGED <<storageDown, now, ticks, consumed, exchanges, sent, okList>>

Load(uid) == LoadFrom(uid, NoResp)

\* The query string changes while the page stays mounted: the effect runs
\* again because userId is one of its dependencies.
Navigate(uid) ==
    /\ mounted
    /\ uid # userId
    /\ activations < MaxActivations
    /\ InFlight < MaxInFlight
    /\ activations' = activations + 1
    /\ userId' = uid
    /\ UseEffect(uid)
    /\ ev' = Event("activate", uid, NoResp)
    /\ UNCHANGED <<mounted, storageDown, now, ticks, consumed, exchanges, sent,
                   okList>>

\* The page is closed or reloaded: the component state and the pending
\* requests are gone, localStorage stays.
Unload ==
    /\ mounted
    /\ mounted' = FALSE
    /\ userId' = NULL
    /\ linkToken' = NULL
    /\ message' = ""
    /\ loading' = TRUE
    /\ subs' = <<>>
    /\ retrieves' = [u \in Users |-> 0]
    /\ exchanges' = EmptyBag
    /\ ev' = Event("unload", NULL, NoResp)
    /\ io' = {}
    /\ calls' = 0
    /\ okList' = [u \in UserIds |-> <<>>]
    /\ origin' = NoOrigin
    /\ UNCHANGED <<storage, storageDown, now, ticks, consumed, sent, activations>>

\* Time passes.
Tick(d) ==
    /\ ticks < MaxTicks
    /\ now' = now + d
    /\ ticks' = ticks + 1
    /\ ev' = Event("tick", NULL, NoResp)
    /\ io' = {}
    /\ UNCHANGED <<page, storage, storageDown, consumed, net, calls, sent, okList,
                   activations, origin>>


(***************************************************************************)
(* PlaidButton: the onSuccess callback of Plaid Link and the exchange.     *)
(***************************************************************************)
ExchangeReq(cred, uid, cb) == [cred |-> cred, uid |-> uid, cb |-> cb]

ExchangeReqs == [cred : Creds, uid : UserIds, cb : UserIds]

\* userId ?? localStorage.getItem("user_id")
BodyUserId ==
    IF userId # NULL THEN userId
    ELSE IF storage[IdentityKey].kind = "text" THEN storage[IdentityKey].text
    ELSE NULL

\* Plaid Link calls onSuccess(public_token): the exchange request is sent.
OnSuccess(cred) ==
    /\ PlaidButtonMounted
    /\ ~(userId = NULL /\ storageDown)
    /\ sent[cred] < MaxSend
    /\ InFlight < MaxInFlight
    /\ exchanges' = exchanges (+) SetToBag({ExchangeReq(cred, BodyUserId, userId)})
    /\ sent' = [sent EXCEPT ![cred] = @ + 1]
    /\ ev' = Event("onSuccess", userId, [kind |-> "credential", cred |-> cred])
    /\ io' = {"fetch_exchange"}
    /\ UNCHANGED <<page, env, retrieves, calls, okList, activations, origin>>

\* The item list PlaidButton passes to onData for a response: the normalized
\* payload, or [] from the catch block.
ExchangeItems(resp) ==
    IF resp.kind # "ok" THEN <<>>
    ELSE LET r == toRecurringItems(resp.data)
         IN IF r.threw THEN <<>> ELSE r.items

\* handlePlaidData(items) of the LinkPage render whose userId was cb.
handlePlaidData(cb, items) ==
    [subs |-> items,
     storage |-> writeCache(storage, cb, items),
     linkToken |-> NULL,
     message |-> IF Len(items) > 0 THEN "" ELSE MsgNoItems,
     wrote |-> TRUE]

\* The remote side accepts a public token once; a replay is rejected.
RemoteAllows(req, resp) == resp.kind = "ok" => req.cred \notin consumed

ExchangeSucceeded(resp) == resp.kind = "ok" /\ ~toRecurringItems(resp.data).threw

\* An exchange call resolves and PlaidButton hands its result to onData.
ExchangeResolve(req, resp) ==
    /\ mounted
    /\ BagIn(req, exchanges)
    /\ RemoteAllows(req, resp)
    /\ LET o == handlePlaidData(req.cb, ExchangeItems(resp))
       IN /\ subs' = o.subs
          /\ linkToken' = o.linkToken
          /\ message' = o.message
          /\ storage' = o.storage
          /\ io' = IF o.wrote THEN {"cache_write"} ELSE {}
    /\ consumed' = IF resp.kind = "ok" THEN consumed \cup {req.cred} ELSE consumed
    /\ exchanges' = exchanges (-) SetToBag({req})
    /\ okList' = IF ExchangeSucceeded(resp)
                 THEN [okList EXCEPT ![req.cb] = ExchangeItems(resp)]
                 ELSE okList
    /\ origin' = Origin(ExchangeItems(resp), req.uid, NULL, NULL)
    /\ ev' = Event("exchange", req.cb, resp)
    /\ UNCHANGED <<mounted, userId, loading, storageDown, now, ticks, retrieves,
                   calls, sent, activations>>

Next ==
    \/ \E uid \in UserIds : Load(uid)
    \/ \E uid \in UserIds : Navigate(uid)
    \/ Unload
    \/ \E d \in {CACHE_TTL_MS, CACHE_TTL_MS + 1} : Tick(d)
    \/ \E uid \in Users, resp \in RetrieveResponses : RetrieveResolve(uid, resp)
    \/ \E cred \in Creds : OnSuccess(cred)
    \/ \E req \in ExchangeReqs, resp \in ExchangeResponses : ExchangeResolve(req, resp)

Spec == Init /\ [][Next]_vars

(***************************************************************************)
(* The same page opened in a browser whose localStorage already holds, for *)
(* one identity, an entry this page did not write.                         *)
(***************************************************************************)
SomeItems == toRecurringItems(Payload(MissingList, ArrayOf(<<Spotify>>))).items

ForeignEntries ==
    { Garbage,
      OtherJSON("number", 1, "missing", <<>>),
      OtherJSON("number", 1, "string", <<>>),
      OtherJSON("missing", 0, "array", StringifyItems(SomeItems)),
      OtherJSON("string", 0, "array", StringifyItems(SomeItems)),
      JSONStringify([ts |-> 1, items |-> SomeItems]) }

InitForeignEntry ==
    /\ mounted = FALSE
    /\ userId = NULL
    /\ linkToken = NULL
    /\ message = ""
    /\ loading = TRUE
    /\ subs = <<>>
    /\ \E v \in ForeignEntries :
          storage = [k \in Keys |-> IF k = cacheKey("u1") THEN v ELSE NoEntry]
    /\ storageDown = FALSE
    /\ now = 1
    /\ ticks = 0
    /\ activations = 0
    /\ retrieves = [u \in Users |-> 0]
    /\ exchanges = EmptyBag
    /\ consumed = {}
    /\ ev = Event("init", NULL, NoResp)
    /\ io = {}
    /\ calls = 0
    /\ sent = [c \in Creds |-> 0]
    /\ okList = [u \in UserIds |-> <<>>]
    /\ origin = NoOrigin

SpecForeignEntry == InitForeignEntry /\ [][Next]_vars

(***************************************************************************)
(* The same page in a browser whose localStorage may throw on every        *)
(* access (storage disabled or denied).                                    *)
(***************************************************************************)
InitStorageFault ==
    /\ mounted = FALSE
    /\ userId = NULL
    /\ linkToken = NULL
    /\ message = ""
    /\ loading = TRUE
    /\ subs = <<>>
    /\ storage = [k \in Keys |-> NoEntry]
    /\ storageDown \in BOOLEAN
    /\ now = 1
    /\ ticks = 0
    /\ activations = 0
    /\ retrieves = [u \in Users |-> 0]
    /\ exchanges = EmptyBag
    /\ consumed = {}
    /\ ev = Event("init", NULL, NoResp)
    /\ io = {}
    /\ calls = 0
    /\ sent = [c \in Creds |-> 0]
    /\ okList = [u \in UserIds |-> <<>>]
    /\ origin = NoOrigin

SpecStorageFault == InitStorageFault /\ [][Next]_vars

(***************************************************************************)
(* The normalizer on its own: a raw payload is handed to toRecurringItems  *)
(* of the formatter module the build bundles, and the result is recorded.  *)
(* A payload holds at most MaxStreams list elements.                       *)
(***************************************************************************)
NormElems == {Spotify, Netflix, Salary, Gym, Hulu, Rent, Unflagged,
              NullElem, ScalarElem}

SeqsOfLen(n) == [1..n -> NormElems]

NormLists(n) ==
    {MissingList, NonArray} \cup
    UNION { { ArrayOf(es) : es \in SeqsOfLen(k) } : k \in 0..n }

\* The import "../utils/precurring-data-formatter" resolves to one of the
\* formatter modules of the repository.
Builds == {"merge", "outflow_only"}

toRecurringItemsOf(build, resp) ==
    IF build = "merge" THEN toRecurringItems(resp)
    ELSE toRecurringItemsOutflowOnly(resp)

\* The payload p handed to the normalizer of build b.
Input(b, p) == Event("input", NULL, [kind |-> "payload", build |-> b, data |-> p])

InitNormalizer ==
    /\ mounted = FALSE
    /\ userId = NULL
    /\ linkToken = NULL
    /\ message = ""
    /\ loading = TRUE
    /\ subs = <<>>
    /\ storage = [k \in Keys |-> NoEntry]
    /\ storageDown = FALSE
    /\ now = 1
    /\ ticks = 0
    /\ activations = 0
    /\ retrieves = [u \in Users |-> 0]
    /\ exchanges = EmptyBag
    /\ consumed = {}
    /\ \E b \in Builds :
          \/ \E p \in {AbsentPayload, ScalarPayload} : ev = Input(b, p)
          \/ \E l \in {MissingList, NonArray}, o \in NormLists(MaxStreams) :
                ev = Input(b, Payload(l, o))
          \/ \E k \in 0..MaxStreams :
                \E es \in SeqsOfLen(k), o \in NormLists(MaxStreams - k) :
                    ev = Input(b, Payload(ArrayOf(es), o))
    /\ io = {}
    /\ calls = 0
    /\ sent = [c \in Creds |-> 0]
    /\ okList = [u \in UserIds |-> <<>>]
    /\ origin = NoOrigin

\* await toRecurringItems(data)
Normalize ==
    /\ ev.kind = "input"
    /\ LET r == toRecurringItemsOf(ev.resp.build, ev.resp.data)
       IN ev' = Event("normalize", NULL,
                      [kind |-> "items", build |-> ev.resp.build,
                       data |-> ev.resp.data, threw |-> r.threw, items |-> r.items])
    /\ UNCHANGED <<page, env, net, io, calls, sent, okList, activations, origin>>

SpecNormalizer == InitNormalizer /\ [][Normalize]_vars

(***************************************************************************)
(* The same page opened by URL: the query string carries one parameter,    *)
(* or none, and the identity is what searchParams.get("user_id") returns.  *)
(***************************************************************************)
ParamNames == {"user_id", "userId", "userid", "uid"}

NoQuery == [kind |-> "url", name |-> "", value |-> NULL]
Query(name, value) == [kind |-> "url", name |-> name, value |-> value]

Urls == {NoQuery} \cup { Query(n, v) : n \in ParamNames, v \in Users }

\* searchParams.get(name): the value of the parameter, or null.
searchParamsGet(url, name) == IF url.name = name THEN url.value ELSE NULL

\* const userId = searchParams.get("user_id")
ResolveIdentity(url) == searchParamsGet(url, "user_id")

OpenUrl(url) == LoadFrom(ResolveIdentity(url), url)

NextUrl ==
    \/ \E url \in Urls : OpenUrl(url)
    \/ Next

SpecUrl == Init /\ [][NextUrl]_vars

(***************************************************************************)
(* The same page in a host that can unmount LinkPage while the document    *)
(* stays alive: the pending fetch calls then resolve after the unmount.    *)
(***************************************************************************)
\* LinkPage is unmounted while calls are in flight: its state is gone, the
\* calls are not cancelled.
Teardown ==
    /\ mounted
    /\ InFlight > 0
    /\ mounted' = FALSE
    /\ userId' = NULL
    /\ linkToken' = NULL
    /\ message' = ""
    /\ loading' = TRUE
    /\ subs' = <<>>
    /\ ev' = Event("teardown", NULL, NoResp)
    /\ io' = {}
    /\ calls' = 0
    /\ okList' = [u \in UserIds |-> <<>>]
    /\ origin' = NoOrigin
    /\ UNCHANGED <<env, net, sent, activations>>

\* The rest of fetchFromApi runs after the unmount: the state setters do
\* nothing, writeCache still runs.
LateRetrieveResolve(uid, resp) ==
    /\ ~mounted
    /\ retrieves[uid] > 0
    /\ LET o == FetchOutcome(uid, resp)
       IN /\ storage' = o.storage
          /\ io' = IF o.wrote THEN {"cache_write"} ELSE {}
    /\ retrieves' = [retrieves EXCEPT ![uid] = @ - 1]
    /\ ev' = Event("late_retrieve", uid, resp)
    /\ UNCHANGED <<page, storageDown, now, ticks, consumed, exchanges, calls, sent,
                   okList, activations, origin>>

\* The rest of onSuccess runs after the unmount and calls onData, that is
\* the handlePlaidData of the unmounted LinkPage.
LateExchangeResolve(req, resp) ==
    /\ ~mounted
    /\ BagIn(req, exchanges)
    /\ RemoteAllows(req, resp)
    /\ LET o == handlePlaidData(req.cb, ExchangeItems(resp))
       IN /\ storage' = o.storage
          /\ io' = IF o.wrote THEN {"cache_write"} ELSE {}
    /\ consumed' = IF resp.kind = "ok" THEN consumed \cup {req.cred} ELSE consumed
    /\ exchanges' = exchanges (-) SetToBag({req})
    /\ ev' = Event("late_exchange", req.cb, resp)
    /\ UNCHANGED <<page, storageDown, now, ticks, retrieves, calls, sent, okList,
                   activations, origin>>

\* The page is mounted again only after the calls of the unmounted one
\* have resolved.
Remount(uid) == InFlight = 0 /\ Load(uid)

NextTeardown ==
    \/ \E uid \in UserIds : Remount(uid)
    \/ \E uid \in UserIds : Navigate(uid)
    \/ Unload
    \/ \E d \in {CACHE_TTL_MS, CACHE_TTL_MS + 1} : Tick(d)
    \/ \E uid \in Users, resp \in RetrieveResponses : RetrieveResolve(uid, resp)
    \/ \E cred \in Creds : OnSuccess(cred)
    \/ \E req \in ExchangeReqs, resp \in ExchangeResponses : ExchangeResolve(req, resp)
    \/ Teardown
    \/ \E uid \in Users, resp \in RetrieveResponses : LateRetrieveResolve(uid, resp)
    \/ \E req \in ExchangeReqs, resp \in ExchangeResponses :
          LateExchangeResolve(req, resp)

SpecTeardown == Init /\ [][NextTeardown]_vars

TypeOK ==
    /\ mounted \in BOOLEAN
    /\ userId \in UserIds
    /\ linkToken \in Tokens \cup {NULL, UNDEFINED}
    /\ message \in {"", MsgNoItems, MsgNoData, MsgError}
    /\ loading \in BOOLEAN
    /\ subs \in ItemLists
    /\ calls \in 0..1


(***************************************************************************)
(* Properties.                                                             *)
(***************************************************************************)
\* The stored entry of uid, read off the storage without readCache.
HasEntry(uid) == storage[cacheKey(uid)].kind = "json"
EntryAge(uid) == now - storage[cacheKey(uid)].ts
EntryItems(uid) == JSONParse(storage[cacheKey(uid)]).items
FreshEntry(uid) == HasEntry(uid) /\ EntryAge(uid) <= CACHE_TTL_MS

\* The state right after the effect ran for a resolvable identity.
Activated == ev.kind = "activate" /\ ev.uid \in Users

\* C1: right after an activation for an identity whose cache entry is fresh
\* and holds a non-empty list, the page is Ready with exactly the cached
\* items, no link token, no message, and the activation issued no retrieve.
C1_FreshCacheServed ==
    (Activated /\ FreshEntry(ev.uid) /\ EntryItems(ev.uid) # <<>>) =>
        /\ View = "Ready"
        /\ subs = EntryItems(ev.uid)
        /\ linkToken = NULL
        /\ message = ""
        /\ "fetch_retrieve" \notin io
        /\ calls = 0

C1_Witness ==
    /\ Activated /\ FreshEntry(ev.uid) /\ EntryItems(ev.uid) # <<>>
    /\ EntryAge(ev.uid) = CACHE_TTL_MS
    /\ View = "Ready"

\* C2: right after an activation for an identity whose cache entry is still
\* fresh, whatever list it holds (an empty one included), the cache was used
\* and no retrieve was issued.
C2_AnyFreshEntrySkipsNetwork ==
    (Activated /\ FreshEntry(ev.uid)) =>
        /\ "fetch_retrieve" \notin io
        /\ ~loading
        /\ subs = EntryItems(ev.uid)

\* C3: an activation issues at most one retrieve call, and no handler other
\* than the activation issues one: after a retrieve resolves, whatever the
\* outcome, there is no further call until the next activation.
C3_AtMostOneRetrieve ==
    /\ calls <= 1
    /\ retrieves["u1"] + retrieves["u2"] <= activations
    /\ ev.kind # "activate" => "fetch_retrieve" \notin io

C3_Witness ==
    /\ ev.kind = "retrieve"
    /\ ev.resp.kind = "http_error"
    /\ calls = 1
    /\ retrieves[ev.uid] = 0


\* C4: no public token is sent in more than one exchange request.
C4_AtMostOneExchangePerCredential == \A c \in Creds : sent[c] <= 1

\* The retrieve or exchange response the last handler was given.
Resolved(kind) == ev.kind = kind
Failed(resp) == resp.kind # "ok"

\* C5: when an exchange fails while the page shows the non-empty list an
\* earlier exchange for the same identity delivered, the displayed items
\* stay that list.
C5_FailedExchangeKeepsItems ==
    [][ ( /\ ev'.kind = "exchange"
          /\ Failed(ev'.resp)
          /\ okList[ev'.uid] # <<>>
          /\ subs = okList[ev'.uid] )
        => subs' = subs ]_vars

\* C6: right after a retrieve resolved with tag recurring_data, the items
\* are the normalized payload, the cache entry of the requesting identity
\* holds that list stamped with the current time, the link token is
\* cleared, and the page is Ready, or shows the no-items message when the
\* list is empty.
C6_RecurringDataCachedAndShown ==
    (Resolved("retrieve") /\ ~Failed(ev.resp) /\ ev.resp.tag = "recurring_data") =>
        LET items == toRecurringItems(ev.resp.data).items
        IN /\ subs = items
           /\ storage[cacheKey(ev.uid)] = JSONStringify([ts |-> now, items |-> items])
           /\ linkToken = NULL
           /\ items # <<>> => View = "Ready"
           /\ items = <<>> => View = "Message" /\ message = MsgNoItems

\* C7: the step in which a retrieve resolves with tag link_token stores the
\* returned token, leaves Loading, and changes neither the items nor any
\* cache entry.
C7_LinkTokenKeepsItems ==
    [][ ( /\ ev'.kind = "retrieve"
          /\ ~Failed(ev'.resp)
          /\ ev'.resp.tag = "link_token" )
        => /\ linkToken' = ev'.resp.data.link_token
           /\ ~loading'
           /\ Truthy(linkToken') /\ subs = <<>> => View' = "NeedsLink"
           /\ subs' = subs
           /\ storage' = storage ]_vars

C7_Witness ==
    /\ Resolved("retrieve") /\ ~Failed(ev.resp) /\ ev.resp.tag = "link_token"
    /\ linkToken = "tok1"
    /\ subs # <<>>
    /\ \E u \in Users : HasEntry(u)

\* C8: the step in which a retrieve ends in a non-2xx response, a transport
\* error or an unrecognized tag sets a non-empty message, leaves Loading,
\* changes neither the items, the link token nor the storage, and lets no
\* exception escape.
C8_FailedRetrieveSetsMessage ==
    [][ ( /\ ev'.kind = "retrieve"
          /\ \/ Failed(ev'.resp)
             \/ ev'.resp.tag \notin {"recurring_data", "link_token"} )
        => /\ message' # ""
           /\ ~loading'
           /\ subs' = subs
           /\ linkToken' = linkToken
           /\ storage' = storage
           /\ "uncaught" \notin io' ]_vars

C8_Witness ==
    /\ Resolved("retrieve") /\ Failed(ev.resp)
    /\ linkToken = "tok1"
    /\ message = MsgError
    /\ ~loading

\* C9: right after the link flow delivered an item list, the cache entry of
\* the current identity holds that list, the link token is cleared, and the
\* page is Ready with the list, or shows the no-items message when it is
\* empty.
C9_DeliveredItemsCachedAndShown ==
    Resolved("exchange") =>
        LET items == ExchangeItems(ev.resp)
        IN /\ subs = items
           /\ storage[cacheKey(userId)] = JSONStringify([ts |-> now, items |-> items])
           /\ linkToken = NULL
           /\ items # <<>> => View = "Ready"
           /\ items = <<>> => View = "Message" /\ message = MsgNoItems

\* C10: right after an activation without an identity, the effect has read
\* and written no storage, issued no call, left Loading and thrown nothing.
C10_NoIdentityNoAccess ==
    (ev.kind = "activate" /\ ev.uid = NULL) =>
        /\ io \cap {"id_write", "cache_read", "cache_write", "fetch_retrieve",
                    "fetch_exchange", "uncaught"} = {}
        /\ calls = 0
        /\ ~loading

C10_Witness ==
    /\ ev.kind = "activate" /\ ev.uid = NULL
    /\ mounted
    /\ View = "Message"


\* C11: right after an activation without an identity the page is in the
\* Message state and the text shown is a failure message about the missing
\* identity.
C11_NoIdentityShowsMessage ==
    (ev.kind = "activate" /\ ev.uid = NULL) =>
        /\ View = "Message"
        /\ message # ""
        /\ FallbackText # "Ready."


\* The list the last handler passed to writeCache.
WroteCache == "cache_write" \in io
WrittenItems ==
    IF ev.kind = "retrieve" THEN toRecurringItems(ev.resp.data).items
    ELSE ExchangeItems(ev.resp)

\* Ages at which an entry is still within its lifetime.
FreshAges == {0, 1, CACHE_TTL_MS - 1, CACHE_TTL_MS}

C13_CacheExpiry ==
    \A u \in UserIds :
        HasEntry(u) =>
            LET ts == storage[cacheKey(u)].ts
            IN \A t \in {now, ts, ts + CACHE_TTL_MS, ts + CACHE_TTL_MS + 1} :
                   readCacheAt(storage, storageDown, t, u).isNull
                       <=> (t - ts > CACHE_TTL_MS)

C13_Witness ==
    /\ Activated /\ "cache_read" \in io
    /\ HasEntry(ev.uid)
    /\ EntryAge(ev.uid) > CACHE_TTL_MS
    /\ EntryItems(ev.uid) # <<>>
    /\ readCache(ev.uid).isNull
    /\ "fetch_retrieve" \in io


\* C14: distinct identities have distinct cache keys, none of which is the
\* key of the identity slot; a step that writes the cache of one identity
\* leaves what a read returns for every other identity unchanged, and so
\* does the activation's write of the identity slot.
C14_CacheIsolation ==
    [][ /\ \A a \in UserIds :
              /\ cacheKey(a) # IdentityKey
              /\ \A b \in UserIds : a # b => cacheKey(a) # cacheKey(b)
        /\ \A u \in UserIds :
              (WroteCache' /\ ev'.uid # u) => readCache(u)' = readCache(u)
        /\ "id_write" \in io' =>
              \A u \in UserIds : now' = now /\ readCache(u)' = readCache(u) ]_vars

C14_Witness ==
    /\ WroteCache
    /\ storage[IdentityKey].kind = "text"
    /\ \E u \in Users :
          /\ u # ev.uid
          /\ HasEntry(u)
          /\ EntryItems(u) # WrittenItems
          /\ ~readCache(u).isNull


\* A stored value that is unparseable, lacks an array-typed items field or
\* lacks a numeric ts field.
Invalid(raw) ==
    \/ raw.kind = "garbage"
    \/ raw.kind = "other" /\ (raw.itemsType # "array" \/ raw.tsType # "number")

\* C15: a read of an identity whose stored value is invalid returns absent,
\* and right after an activation for such an identity the page is Loading
\* with a retrieve call issued, as when there is no entry.
C15_InvalidEntryIsAbsent ==
    (Activated /\ Invalid(storage[cacheKey(ev.uid)])) =>
        /\ readCache(ev.uid).isNull
        /\ "fetch_retrieve" \in io
        /\ loading


\* C16: while the storage throws on every access, no handler lets an
\* exception escape, an activation for a resolvable identity issues the
\* retrieve call, a resolved retrieve leaves Loading, and a linking success
\* that delivers items reaches Ready.
C16_StorageFaultTolerated ==
    storageDown =>
        /\ "uncaught" \notin io
        /\ Activated => "fetch_retrieve" \in io
        /\ Resolved("retrieve") => ~loading
        /\ (Resolved("exchange") /\ ExchangeItems(ev.resp) # <<>>) => View = "Ready"


\* The state right after toRecurringItems ran on a payload.
Normalized == ev.kind = "normalize"

\* C17: the normalizer raises no error, whatever the payload: absent, not an
\* object, with a list missing or not an array, or with list elements that
\* are not records; and a payload that is not an object gives no items.
C17_NormalizerNeverRaises ==
    Normalized =>
        /\ ~ev.resp.threw
        /\ ev.resp.data.kind # "object" => ev.resp.items = <<>>


\* The list elements of the payload, read off the input: records whose
\* activity flag is true, in list order.
Flagged(e) == e.kind = "record" /\ e.is_active = <<TRUE>>
InputList(list) == IF list.kind = "array" THEN list.elems ELSE <<>>
InputInflow == IF ev.resp.data.kind = "object"
               THEN InputList(ev.resp.data.inflow_streams) ELSE <<>>
InputOutflow == IF ev.resp.data.kind = "object"
                THEN InputList(ev.resp.data.outflow_streams) ELSE <<>>
CountFlagged(es) == Cardinality({ i \in 1..Len(es) : Flagged(es[i]) })

\* How many times x occurs in the sequence xs.
Occurrences(xs, x) == Cardinality({ i \in 1..Len(xs) : xs[i] = x })
SameBag(xs, ys) ==
    /\ Len(xs) = Len(ys)
    /\ \A i \in 1..Len(xs) : Occurrences(xs, xs[i]) = Occurrences(ys, xs[i])

\* C18: the normalized list holds exactly one item for each stream of the
\* inflow and the outflow list whose activity flag is truthy and none for
\* the others: its length is the number of active streams of both lists,
\* and its items are the fields picked from those streams.
C18_OneItemPerActiveStream ==
    (Normalized /\ ~ev.resp.threw) =>
        /\ Len(ev.resp.items) = CountFlagged(InputInflow) + CountFlagged(InputOutflow)
        /\ SameBag(ev.resp.items,
                   MapPick(SelectSeq(InputInflow \o InputOutflow, Flagged)))

\* The streams the normalizer of the build retains, in input order.
Retained ==
    IF ev.resp.build = "merge"
    THEN SelectSeq(InputInflow \o InputOutflow, Flagged)
    ELSE SelectSeq(InputOutflow, Flagged)

DateOf(it) == it.predicted_next_date
WithDate(xs, d) == LET Has(x) == DateOf(x) = d IN SelectSeq(xs, Has)

\* C19: in the normalized list dated items are in ascending date order,
\* every undated item comes after every dated one, and the items of one
\* date, and the undated items, are in their input order (inflow before
\* outflow, each in list order).
C19_SortedStable ==
    (Normalized /\ ~ev.resp.threw) =>
        LET out == ev.resp.items
            src == MapPick(Retained)
        IN /\ \A i, j \in 1..Len(out) :
                  (i < j /\ DateOf(out[i]) # 0 /\ DateOf(out[j]) # 0)
                      => DateOf(out[i]) <= DateOf(out[j])
           /\ \A i, j \in 1..Len(out) :
                  (i < j /\ DateOf(out[i]) = 0) => DateOf(out[j]) = 0
           /\ \A k \in 1..Len(src) :
                  WithDate(out, DateOf(src[k])) = WithDate(src, DateOf(src[k]))
           /\ Len(out) = Len(src)

C19_Witness ==
    /\ Normalized /\ ~ev.resp.threw
    /\ ev.resp.build = "merge"
    /\ Len(ev.resp.items) = 3
    /\ ev.resp.items # MapPick(Retained)
    /\ DateOf(ev.resp.items[1]) = DateOf(ev.resp.items[2])
    /\ ev.resp.items[1] # ev.resp.items[2]
    /\ DateOf(ev.resp.items[1]) # 0
    /\ DateOf(ev.resp.items[3]) = 0
    /\ DateOf(MapPick(Retained)[1]) = 0

\* The amount the source stream carries.
HasAmount(o) == o # <<>> /\ o[1] # <<>>
SourceAmount(s) ==
    IF HasAmount(s.average_amount) THEN s.average_amount[1][1]
    ELSE IF HasAmount(s.last_amount) THEN s.last_amount[1][1]
    ELSE 0

AmountPair(desc, amount) == [description |-> desc, amount |-> amount]

RECURSIVE ExpectedAmounts(_)
ExpectedAmounts(ss) ==
    IF ss = <<>> THEN <<>>
    ELSE <<AmountPair(pickFields(Head(ss)).description, SourceAmount(Head(ss)))>>
             \o ExpectedAmounts(Tail(ss))

RECURSIVE ItemAmounts(_)
ItemAmounts(items) ==
    IF items = <<>> THEN <<>>
    ELSE <<AmountPair(Head(items).description, Head(items).amount)>>
             \o ItemAmounts(Tail(items))

\* C20: the amount of each item is a number: the average amount of its
\* stream when the stream has one, zero included, otherwise its last amount
\* when it has one, otherwise 0, with the sign of the source.
C20_AmountDerivation ==
    (Normalized /\ ~ev.resp.threw) =>
        /\ \A i \in 1..Len(ev.resp.items) : ev.resp.items[i].amount \in Int
        /\ SameBag(ItemAmounts(ev.resp.items), ExpectedAmounts(Retained))

C20_Witness ==
    /\ Normalized /\ ~ev.resp.threw
    /\ \E i, j, k \in 1..Len(ev.resp.items) :
          /\ ev.resp.items[i] = pickFields(Hulu) /\ ev.resp.items[i].amount = 0
          /\ ev.resp.items[j] = pickFields(Salary) /\ ev.resp.items[j].amount < 0
          /\ ev.resp.items[k] = pickFields(Netflix) /\ ev.resp.items[k].amount = 500


\* C21: right after the page was opened with a URL that carries an identity
\* under one of the names user_id, userId, userid or uid, the identity of
\* the page is that value and the activation is the one for that identity.
C21_IdentityUnderAnyName ==
    (ev.kind = "activate" /\ ev.resp.kind = "url" /\ ev.resp.name \in ParamNames) =>
        /\ userId = ev.resp.value
        /\ ev.uid = ev.resp.value
        /\ "id_write" \in io


\* C22: whenever the page is not loading, what it shows follows a fixed
\* priority: the item list when it is non-empty, whatever else is set;
\* otherwise the link prompt when a link token is present; otherwise the
\* message.
C22_RenderPriority ==
    (mounted /\ ~loading) =>
        /\ subs # <<>> => View = "Ready"
        /\ (subs = <<>> /\ Truthy(linkToken)) => View = "NeedsLink"
        /\ (subs = <<>> /\ ~Truthy(linkToken)) => View = "Message"

C22_Witness ==
    /\ mounted /\ ~loading
    /\ subs # <<>>
    /\ Truthy(linkToken)
    /\ View = "Ready"

\* C23: a step in which a retrieve or an exchange fails (non-2xx response,
\* transport error, rejected credential) leaves every cache entry as it
\* was, and a retrieve that returns another tag than recurring_data writes
\* no entry either.
C23_FailureLeavesCache ==
    [][ ( /\ ev'.kind \in {"retrieve", "exchange"}
          /\ \/ Failed(ev'.resp)
             \/ ev'.kind = "retrieve" /\ ev'.resp.tag # "recurring_data" )
        => storage' = storage ]_vars

\* C24: right after an exchange failed, the message the user sees is a
\* failure message, neither empty nor the no-items message, and the
\* controller was not handed an empty list as a result.
C24_FailedExchangeShowsFailure ==
    (Resolved("exchange") /\ Failed(ev.resp)) =>
        /\ message \notin {"", MsgNoItems}
        /\ FallbackText \notin {"Ready.", MsgNoItems}
        /\ ~WroteCache

\* C25: right after an exchange answered 2xx with a tag that is not
\* recurring_data, the page shows a failure message, no list was delivered
\* as a result and no cache entry was written.
C25_UntaggedExchangeIsFailure ==
    (Resolved("exchange") /\ ~Failed(ev.resp) /\ ev.resp.tag # "recurring_data") =>
        /\ message \notin {"", MsgNoItems}
        /\ ~WroteCache
        /\ okList[ev.uid] = <<>>


\* C27: whenever the page is not loading, the item list is non-empty, a
\* link token is present or the message is non-empty; this includes the
\* states after a link_token response without a token and after an
\* activation without an identity.
C27_SomethingToShow ==
    (mounted /\ ~loading) =>
        \/ subs # <<>>
        \/ Truthy(linkToken)
        \/ message # ""


\* C26: whenever the page shows items, they were obtained for the current
\* identity, and whenever it shows the link prompt, the link token was
\* obtained for the current identity; this includes the states after the
\* identity changed while the page stayed mounted.
C26_ShownDataIsOfCurrentIdentity ==
    mounted =>
        /\ View = "Ready" => origin.subs = userId
        /\ View = "NeedsLink" => origin.token = userId


\* A retrieve call, or an exchange call, is in flight.
RetrievePending == retrieves["u1"] + retrieves["u2"] > 0
ExchangePending == BagCardinality(exchanges) > 0

\* C28: while a retrieve call is pending the page is Loading, a step that
\* leaves a retrieve call pending changes neither the items nor the link
\* token, and the step in which a retrieve call completes, whatever its
\* outcome, leaves Loading.
C28_LoadingWhilePending ==
    [][ /\ (mounted /\ RetrievePending) => loading
        /\ (mounted /\ RetrievePending /\ RetrievePending') =>
               /\ subs' = subs
               /\ linkToken' = linkToken
               /\ loading'
        /\ ev'.kind = "retrieve" => ~loading' ]_vars

\* C29: an exchange call is issued only while the page shows the link
\* prompt with no items, after a retrieve resolved with the link token, and
\* no retrieve call and exchange call are in flight together.
C29_ExchangeOnlyWhenLinking ==
    [][ /\ ev'.kind = "onSuccess" =>
               /\ View = "NeedsLink"
               /\ subs = <<>>
               /\ Truthy(linkToken)
               /\ origin.token # NULL
        /\ ~(RetrievePending /\ ExchangePending)
        /\ ~(RetrievePending' /\ ExchangePending') ]_vars


\* C30: a response that resolves after the page was torn down is discarded:
\* the step changes neither the page state nor any storage entry.
C30_LateResponseDiscarded ==
    [][ ev'.kind \in {"late_retrieve", "late_exchange"} =>
            /\ storage' = storage
            /\ page' = page ]_vars

====
